---- MODULE Spec2Model ----
(***************************************************************************)
(* Model of smarthouse/persistence.py (SmartHouseRepository): the          *)
(* measurement store, the structure loader, the actuator state codec and   *)
(* the two aggregation queries, over the SQLite tables rooms, devices,     *)
(* states and measurements.                                                *)
(*                                                                         *)
(* Timestamps are the TEXT values SQLite's datetime('now') produces,       *)
(* 'YYYY-MM-DD HH:MM:SS'.  A timestamp is modelled by the sequence of its  *)
(* fields <<day, hour, second>> and a date string 'YYYY-MM-DD' by <<day>>; *)
(* SQLite compares TEXT bytewise, which on these fixed-width strings is    *)
(* the lexicographic order of the field sequences, a proper prefix being   *)
(* smaller than the longer string.                                         *)
(***************************************************************************)
EXTENDS Integers, Sequences, FiniteSets, TLC

VARIABLES
    rooms,          \* table rooms(id, floor, area, name)
    devices,        \* table devices(id, room, kind, category, state)
    states,         \* table states(device, state)
    measurements,   \* table measurements as the shared connection sees it
    committed,      \* table measurements as last committed to the file
    clock,          \* the wall clock, in seconds
    pc,             \* position of each concurrent caller inside its call
    last            \* the last completed call, its arguments and its result

vars == <<rooms, devices, states, measurements, committed, clock, pc, last>>

----------------------------------------------------------------------------
(* Bounds of the model *)

MaxClock == 3       \* the clock runs over 0..MaxClock
MaxRows == 3        \* rows the measurement store may hold in SpecStore
MaxRowid == 4       \* largest rowid handed out

\* Values of the nullable numeric state columns
NULL == [isnull |-> TRUE, num |-> 0]
Num(n) == [isnull |-> FALSE, num |-> n]

----------------------------------------------------------------------------
(* Text comparison and the SQLite date functions *)

Min2(a, b) == IF a <= b THEN a ELSE b

\* s < t for TEXT values given as field sequences (memcmp, shorter prefix first)
TextLess(s, t) ==
    \/ \E i \in 1..Min2(Len(s), Len(t)) :
          /\ s[i] < t[i]
          /\ \A j \in 1..(i - 1) : s[j] = t[j]
    \/ /\ Len(s) < Len(t)
       /\ \A j \in 1..Len(s) : s[j] = t[j]

TextLeq(s, t) == s = t \/ TextLess(s, t)

\* strftime('%Y-%m-%d', ts) and date(ts)
DateOf(ts) == <<ts[1]>>

\* strftime('%H', ts)
HourOf(ts) == ts[2]

\* The hours of the day the modelled clock can show
ClockHours == <<7, 10>>

\* datetime('now') at clock value t: two seconds per hour shown, two hours per day
DatetimeNow(t) ==
    <<1 + (t \div 4), ClockHours[1 + ((t \div 2) % 2)], t % 2>>

----------------------------------------------------------------------------
(* The fixed house used by the store and aggregation specifications *)

HouseRooms ==
    { [id |-> 1, floor |-> 1, area |-> 10, name |-> "Bathroom"],
      [id |-> 2, floor |-> 2, area |-> 20, name |-> "Bedroom"] }

HouseDevices ==
    { [id |-> "hum1", room |-> 1, kind |-> "Humidity Sensor",
       category |-> "sensor", state |-> NULL],
      [id |-> "tmp1", room |-> 1, kind |-> "Temperature Sensor",
       category |-> "sensor", state |-> NULL],
      [id |-> "hum2", room |-> 2, kind |-> "Humidity Sensor",
       category |-> "sensor", state |-> NULL],
      [id |-> "pump", room |-> 2, kind |-> "Heat Pump",
       category |-> "actuator", state |-> NULL],
      [id |-> "bulb", room |-> 1, kind |-> "Light Bulp",
       category |-> "actuator", state |-> NULL] }

\* Sensors the store specification appends to
StoreSensors == {"hum1", "tmp1"}

\* NewSensorMeasurement bodies a caller may post
NewMeasurements ==
    { [value |-> 1, unit |-> "%"], [value |-> 2, unit |-> "C"] }

----------------------------------------------------------------------------
(* Measurement store *)

MaxOf(S) == CHOOSE x \in S : \A y \in S : y <= x

RowsOf(tbl, d) == { r \in tbl : r.device = d }

\* SQLite hands out max(rowid) + 1
NextRowid(tbl) ==
    IF tbl = {} THEN 1 ELSE MaxOf({ r.rowid : r \in tbl }) + 1

\* INSERT INTO measurements (device, value, unit, ts) VALUES (?, ?, ?, datetime('now'))
InsertMeasurement(tbl, d, m, t) ==
    tbl \union { [rowid |-> NextRowid(tbl), device |-> d, value |-> m.value,
                  unit |-> m.unit, ts |-> DatetimeNow(t)] }

\* SELECT rowid ... WHERE device = ? ORDER BY ts ASC LIMIT 1: the rows the
\* query may pick; the order among equal ts is not defined by SQL
OldestRows(tbl, d) ==
    { r \in RowsOf(tbl, d) : \A o \in RowsOf(tbl, d) : TextLeq(r.ts, o.ts) }

\* SELECT value, unit, ts ... WHERE device = ? ORDER BY ts DESC LIMIT 1
LatestRows(tbl, d) ==
    { r \in RowsOf(tbl, d) : \A o \in RowsOf(tbl, d) : TextLeq(o.ts, r.ts) }

\* Measurement(timestamp, float(value), unit); rowid is kept to tell rows apart
MeasurementOf(r) ==
    [timestamp |-> r.ts, value |-> r.value, unit |-> r.unit, rowid |-> r.rowid]

Tick ==
    /\ clock < MaxClock
    /\ clock' = clock + 1
    /\ UNCHANGED <<rooms, devices, states, measurements, committed, pc, last>>

add_measurement_to_sensor(d, m) ==
    /\ Cardinality(measurements) < MaxRows
    /\ NextRowid(measurements) <= MaxRowid
    /\ measurements' = InsertMeasurement(measurements, d, m, clock)
    /\ committed' = measurements'
    /\ last' = [op |-> "append", device |-> d,
                rowid |-> NextRowid(measurements), before |-> measurements]
    /\ UNCHANGED <<rooms, devices, states, clock, pc>>

\* Mutant: the DELETE without LIMIT 1 semantics, removing every row that
\* carries the minimum timestamp
DeleteOldestAllTies(tbl, d) ==
    { tbl \ OldestRows(tbl, d) }

\* DELETE FROM measurements WHERE rowid IN (SELECT rowid ... LIMIT 1): the
\* tables the statement may leave
DeleteOldest(tbl, d) ==
    IF OldestRows(tbl, d) = {}
    THEN {tbl}
    ELSE { tbl \ {r} : r \in OldestRows(tbl, d) }

\* What get_latest_reading may return on table tbl
LatestReading(tbl, d) ==
    IF LatestRows(tbl, d) = {}
    THEN { [op |-> "latest", device |-> d, found |-> FALSE] }
    ELSE { [op |-> "latest", device |-> d, found |-> TRUE,
            res |-> MeasurementOf(r)] : r \in LatestRows(tbl, d) }

delete_oldest_measurement(d) ==
    /\ measurements' \in DeleteOldest(measurements, d)
    /\ committed' = measurements'
    /\ last' = [op |-> "delete_oldest", device |-> d, before |-> measurements]
    /\ UNCHANGED <<rooms, devices, states, clock, pc>>

get_latest_reading(d) ==
    /\ last' \in LatestReading(measurements, d)
    /\ UNCHANGED <<rooms, devices, states, measurements, committed, clock, pc>>

NoCall == [op |-> "none"]

InitStore ==
    /\ rooms = HouseRooms
    /\ devices = HouseDevices
    /\ states = {}
    /\ measurements = {}
    /\ committed = {}
    /\ clock = 0
    /\ pc = <<>>
    /\ last = NoCall

NextStore ==
    \/ Tick
    \/ \E d \in StoreSensors, m \in NewMeasurements : add_measurement_to_sensor(d, m)
    \/ \E d \in StoreSensors : delete_oldest_measurement(d)
    \/ \E d \in StoreSensors : get_latest_reading(d)

SpecStore == InitStore /\ [][NextStore]_vars

----------------------------------------------------------------------------
(* Callers sharing the one connection (sqlite3.connect(check_same_thread=False)):
   each write is the statement followed by conn.commit(), and another caller
   may run between the two. *)

NumCallers == 2
MaxConcRows == 2     \* rows (and rowids) the store may hold in SpecConc

Callers == 1..NumCallers

Idle == [at |-> "idle"]

\* cursor.execute(INSERT ...) of add_measurement_to_sensor
ExecuteInsert(p, d, m) ==
    /\ pc[p] = Idle
    /\ NextRowid(measurements) <= MaxConcRows
    /\ measurements' = InsertMeasurement(measurements, d, m, clock)
    /\ pc' = [pc EXCEPT ![p] = [at |-> "commit", op |-> "append", device |-> d]]
    /\ UNCHANGED <<rooms, devices, states, committed, clock, last>>

\* cursor.execute(DELETE ...) of delete_oldest_measurement
ExecuteDelete(p, d) ==
    /\ pc[p] = Idle
    /\ measurements' \in DeleteOldest(measurements, d)
    /\ pc' = [pc EXCEPT ![p] = [at |-> "commit", op |-> "delete_oldest",
                                 device |-> d]]
    /\ UNCHANGED <<rooms, devices, states, committed, clock, last>>

\* self.conn.commit(): commits whatever the connection has pending
Commit(p) ==
    /\ pc[p].at = "commit"
    /\ committed' = measurements
    /\ last' = [op |-> pc[p].op, device |-> pc[p].device, caller |-> p]
    /\ pc' = [pc EXCEPT ![p] = Idle]
    /\ UNCHANGED <<rooms, devices, states, measurements, clock>>

\* get_latest_reading by caller p: one SELECT on the shared connection
Read(p, d) ==
    /\ pc[p] = Idle
    /\ last' \in LatestReading(measurements, d)
    /\ UNCHANGED <<rooms, devices, states, measurements, committed, clock, pc>>

InitConc ==
    /\ rooms = HouseRooms
    /\ devices = HouseDevices
    /\ states = {}
    /\ measurements = {}
    /\ committed = {}
    /\ clock = 0
    /\ pc = [p \in Callers |-> Idle]
    /\ last = NoCall

NextConc ==
    \/ Tick
    \/ \E p \in Callers, d \in StoreSensors, m \in NewMeasurements :
          ExecuteInsert(p, d, m)
    \/ \E p \in Callers, d \in StoreSensors : ExecuteDelete(p, d)
    \/ \E p \in Callers : Commit(p)
    \/ \E p \in Callers, d \in StoreSensors : Read(p, d)

SpecConc == InitConc /\ [][NextConc]_vars

----------------------------------------------------------------------------
(* Aggregation queries *)

RECURSIVE SumValues(_)
SumValues(S) ==
    IF S = {} THEN 0
    ELSE LET r == CHOOSE x \in S : TRUE
         IN  r.value + SumValues(S \ {r})

\* AVG(value) over a non-empty set of rows, kept exact as sum / n
Avg(S) == [sum |-> SumValues(S), n |-> Cardinality(S)]

\* value > avg
ExceedsAvg(v, a) == v * a.n > a.sum

SameAvg(a, b) == a.sum * b.n = b.sum * a.n

MinOf(S) == CHOOSE x \in S : \A y \in S : x <= y

\* sorted(...) of a collection of distinct integers
RECURSIVE Sorted(_)
Sorted(S) ==
    IF S = {} THEN <<>> ELSE <<MinOf(S)>> \o Sorted(S \ {MinOf(S)})

Range(q) == { q[i] : i \in 1..Len(q) }

\* measurements INNER JOIN devices ON measurements.device = devices.id
DeviceOf(ds, m) == CHOOSE dev \in ds : dev.id = m.device

Joined(ds, tbl) == { m \in tbl : \E dev \in ds : dev.id = m.device }

\* WHERE hour IN ('07', '08', '09', '12', '18')
QueryHours == {7, 8, 9, 12, 18}

\* The correlated subquery: AVG(m2.value) over the rows of humidity sensors of
\* the same room, unit, date and hour as row m
avg_humidity(ds, tbl, m) ==
    Avg({ m2 \in Joined(ds, tbl) :
            /\ HourOf(m2.ts) = HourOf(m.ts)
            /\ DeviceOf(ds, m2).room = DeviceOf(ds, m).room
            /\ m2.unit = m.unit
            /\ DateOf(m2.ts) = DateOf(m.ts)
            /\ DeviceOf(ds, m2).kind = "Humidity Sensor" })

\* The rows of the inner SELECT that pass the outer WHERE
HumidityAboveAvg(ds, tbl, room_id, date) ==
    { m \in Joined(ds, tbl) :
        /\ DeviceOf(ds, m).room = room_id
        /\ m.unit = "%"
        /\ DateOf(m.ts) = date
        /\ DeviceOf(ds, m).kind = "Humidity Sensor"
        /\ HourOf(m.ts) \in QueryHours
        /\ ExceedsAvg(m.value, avg_humidity(ds, tbl, m)) }

\* GROUP BY hour HAVING COUNT(*) > 3
HoursHaving(rows) ==
    { h \in { HourOf(m.ts) : m \in rows } :
        Cardinality({ m \in rows : HourOf(m.ts) = h }) > 3 }

\* Mutant: the room lookup is not checked; an unknown room gives room id None,
\* which no device row matches, and the call returns the empty list
CalcHoursNoRoomCheck(rs, ds, tbl, name, date) ==
    [op |-> "hours", room |-> name, date |-> date, raised |-> "",
     res |-> IF { r \in rs : r.name = name } = {}
             THEN <<>>
             ELSE Sorted(HoursHaving(HumidityAboveAvg(
                     ds, tbl, (CHOOSE r \in rs : r.name = name).id, date)))]

\* calc_hours_with_humidity_above(room, date): what the call yields
CalcHours(rs, ds, tbl, name, date) ==
    IF { r \in rs : r.name = name } = {}
    THEN [op |-> "hours", room |-> name, date |-> date, raised |-> "ValueError"]
    ELSE LET room_id == (CHOOSE r \in rs : r.name = name).id
         IN  [op |-> "hours", room |-> name, date |-> date, raised |-> "",
              res |-> Sorted(HoursHaving(HumidityAboveAvg(ds, tbl, room_id, date)))]

calc_hours_with_humidity_above(name, date) ==
    /\ last' = CalcHours(rooms, devices, measurements, name, date)
    /\ UNCHANGED <<rooms, devices, states, measurements, committed, clock, pc>>

\* if from_date: ... m.ts >= ?   and   if until_date: ... m.ts <= ?
InTimeRange(ts, from_date, until_date) ==
    /\ (Len(from_date) > 0 => TextLeq(from_date, ts))
    /\ (Len(until_date) > 0 => TextLeq(ts, until_date))

\* The rows the temperature query selects: unit is the temperature unit
\* (written "C" here), device in a room of the given name, ts in range
TemperatureRows(rs, ds, tbl, name, from_date, until_date) ==
    { m \in Joined(ds, tbl) :
        /\ \E r \in rs : r.id = DeviceOf(ds, m).room /\ r.name = name
        /\ m.unit = "C"
        /\ InTimeRange(m.ts, from_date, until_date) }

\* GROUP BY strftime('%Y-%m-%d', m.ts) with AVG(m.value), as the dict returned
CalcAvgTemperatures(rs, ds, tbl, name, from_date, until_date) ==
    LET sel == TemperatureRows(rs, ds, tbl, name, from_date, until_date)
    IN  [ day \in { DateOf(m.ts) : m \in sel } |->
            Avg({ m \in sel : DateOf(m.ts) = day }) ]

calc_avg_temperatures_in_room(name, from_date, until_date) ==
    /\ last' = [op |-> "avg", room |-> name, from |-> from_date,
                until |-> until_date,
                res |-> CalcAvgTemperatures(rooms, devices, measurements,
                                            name, from_date, until_date)]
    /\ UNCHANGED <<rooms, devices, states, measurements, committed, clock, pc>>

----------------------------------------------------------------------------
(* Stored data the aggregation specifications start from *)

MaxLow == 1         \* low humidity readings per hour, at most
MaxHigh == 4        \* high humidity readings per hour, at most
MaxDay == 2         \* days with temperature readings

RoomNames == {"Bathroom", "Bedroom", "Attic"}

Row(id, d, v, u, ts) ==
    [rowid |-> id, device |-> d, value |-> v, unit |-> u, ts |-> ts]

\* nl readings of 1 % and nh readings of 5 % by hum1 on day 1 in hour h
HumidityHour(h, nl, nh) ==
    { Row(100 * h + i, "hum1", 1, "%", <<1, h, i>>) : i \in 1..nl }
    \union { Row(100 * h + 50 + i, "hum1", 5, "%", <<1, h, 30 + i>>) : i \in 1..nh }

\* Rows the humidity query has to leave out of hour 7 of day 1 in the Bathroom
OtherHumidityRows ==
    { Row(1, "hum1", 9, "C", <<1, 7, 0>>),
      Row(2, "tmp1", 0, "%", <<1, 7, 0>>),
      Row(3, "hum2", 0, "%", <<1, 7, 0>>),
      Row(4, "hum1", 0, "%", <<2, 7, 0>>) }

InitHumidity ==
    /\ rooms = HouseRooms
    /\ devices = HouseDevices
    /\ states = {}
    /\ \E nl7 \in 0..MaxLow, nh7 \in 0..MaxHigh,
          nl10 \in 0..MaxLow, nh10 \in 0..MaxHigh,
          other \in SUBSET OtherHumidityRows :
          measurements = HumidityHour(7, nl7, nh7)
                         \union HumidityHour(10, nl10, nh10) \union other
    /\ committed = measurements
    /\ clock = 0
    /\ pc = <<>>
    /\ last = NoCall

NextHumidity ==
    \E name \in RoomNames, day \in 1..2 :
        calc_hours_with_humidity_above(name, <<day>>)

SpecHumidity == InitHumidity /\ [][NextHumidity]_vars

\* Temperature readings of tmp1 on one day: 20 at 07:00:00, 22 at 10:00:00
TemperatureDay(day) ==
    { Row(10 * day + 1, "tmp1", 20, "C", <<day, 7, 0>>),
      Row(10 * day + 2, "tmp1", 22, "C", <<day, 10, 0>>) }

\* A reading of another unit, one of another room, one of a second device of
\* the Bathroom
OtherTemperatureRows ==
    { Row(1, "tmp1", 50, "%", <<1, 7, 0>>),
      Row(2, "pump", 30, "C", <<1, 7, 0>>),
      Row(3, "hum1", 26, "C", <<2, 0, 0>>) }

DateArgs == { <<>> } \union { <<day>> : day \in 1..MaxDay }

InitTemperature ==
    /\ rooms = HouseRooms
    /\ devices = HouseDevices
    /\ states = {}
    /\ \E f \in [1..MaxDay -> SUBSET {1, 2}],
          other \in SUBSET OtherTemperatureRows :
          measurements =
              { r \in UNION { TemperatureDay(day) : day \in 1..MaxDay } :
                  (r.rowid % 10) \in f[r.ts[1]] } \union other
    /\ committed = measurements
    /\ clock = 0
    /\ pc = <<>>
    /\ last = NoCall

NextTemperature ==
    \E name \in RoomNames, from_date \in DateArgs, until_date \in DateArgs :
        calc_avg_temperatures_in_room(name, from_date, until_date)

SpecTemperature == InitTemperature /\ [][NextTemperature]_vars

----------------------------------------------------------------------------
(* Domain objects built by the loader.  smarthouse/domain.py is not part of
   the sources at hand; register_floor, register_room, register_device,
   turn_on and turn_off are modelled from the documented data model: a house
   is a sequence of floors, a floor a level and a sequence of rooms, a room a
   sequence of devices. *)

Off == [tag |-> "Off", level |-> 0]
On == [tag |-> "On", level |-> 0]
OnWithLevel(v) == [tag |-> "OnWithLevel", level |-> v]
NoState == [tag |-> "NoState", level |-> 0]

SmartHouse == [floors |-> <<>>]

register_floor(h, level) ==
    [h EXCEPT !.floors = Append(@, [level |-> level, rooms |-> <<>>])]

\* register_room(floor, area, name) on the floor at position f, then
\* room.db_id = int(id)
register_room(h, f, row) ==
    [h EXCEPT !.floors[f].rooms =
        Append(@, [db_id |-> row.id, name |-> row.name, area |-> row.area,
                   devices |-> <<>>])]

\* register_device(room, device) for the room at position loc = <<f, r>>
register_device(h, loc, dev) ==
    [h EXCEPT !.floors[loc[1]].rooms[loc[2]].devices = Append(@, dev)]

----------------------------------------------------------------------------
(* Actuator state codec *)

\* Mutant: a threshold instead of the exact match, every value from 1 up is On
DecodeThreshold(raw) ==
    IF raw.isnull THEN Off
    ELSE IF raw.num >= 1 THEN On
    ELSE OnWithLevel(raw.num)

\* The rule of load_smarthouse_deep for a fetched state value
Decode(raw) ==
    IF raw.isnull THEN Off
    ELSE IF raw.num = 1 THEN On
    ELSE OnWithLevel(raw.num)

\* Truth value Python gives a state passed as new_state: False for off, True
\* for on, the level (a float) for on-with-level
Truthy(s) ==
    \/ s.tag = "On"
    \/ s.tag = "OnWithLevel" /\ s.level # 0

\* params = (1 if new_state else 0, actuator.id)
Encode(s) == IF Truthy(s) THEN Num(1) ELSE Num(0)

\* UPDATE devices SET state = ? WHERE id = ?
UpdateState(ds, id, s) ==
    { IF dev.id = id THEN [dev EXCEPT !.state = Encode(s)] ELSE dev : dev \in ds }

update_actuator_state(id, s) ==
    /\ devices' = UpdateState(devices, id, s)
    /\ last' = [op |-> "update_state", device |-> id, state |-> s]
    /\ UNCHANGED <<rooms, states, measurements, committed, clock, pc>>

\* bool(row[0]) of SELECT state FROM devices WHERE id = ?
get_actuator_state(id) ==
    /\ last' = IF \E dev \in devices : dev.id = id
               THEN LET dev == CHOOSE x \in devices : x.id = id
                    IN  [op |-> "get_state", device |-> id, found |-> TRUE,
                         res |-> (~ dev.state.isnull /\ dev.state.num # 0)]
               ELSE [op |-> "get_state", device |-> id, found |-> FALSE]
    /\ UNCHANGED <<rooms, devices, states, measurements, committed, clock, pc>>

MaxLevel == 3       \* levels an actuator may be set to: 0..MaxLevel except 1

ActuatorStates ==
    {Off, On} \union { OnWithLevel(v) : v \in (0..MaxLevel) \ {1} }

ActuatorIds == {"pump", "bulb", "none"}

InitCodec ==
    /\ rooms = HouseRooms
    /\ devices = HouseDevices
    /\ states = {}
    /\ measurements = {}
    /\ committed = {}
    /\ clock = 0
    /\ pc = <<>>
    /\ last = NoCall

NextCodec ==
    \/ \E id \in ActuatorIds, s \in ActuatorStates : update_actuator_state(id, s)
    \/ \E id \in ActuatorIds : get_actuator_state(id)

SpecCodec == InitCodec /\ [][NextCodec]_vars

----------------------------------------------------------------------------
(* Structure loader *)

\* fetchall(): the rows of a table in some order
RECURSIVE Fetchall(_)
Fetchall(S) ==
    IF S = {} THEN <<>>
    ELSE LET r == CHOOSE x \in S : TRUE
         IN  <<r>> \o Fetchall(S \ {r})

\* Mutant: the floors are numbered from 0, register_floor(i)
RECURSIVE CreateFloorsFromZero(_, _, _)
CreateFloorsFromZero(h, i, no_floors) ==
    IF i >= no_floors THEN h
    ELSE CreateFloorsFromZero(register_floor(h, i), i + 1, no_floors)

\* for i in range(0, no_floors): floors.append(result.register_floor(i + 1))
RECURSIVE CreateFloors(_, _, _)
CreateFloors(h, i, no_floors) ==
    IF i >= no_floors THEN h
    ELSE CreateFloors(register_floor(h, i + 1), i + 1, no_floors)

\* One pass of the room loop: floors[int(floor) - 1] is the floor at
\* position floor; room_dict[id] = room
AddRoom(acc, row) ==
    LET f == (row.floor - 1) + 1
        h == register_room(acc.house, f, row)
    IN  [acc EXCEPT !.house = h,
                    !.room_dict = [ id \in DOMAIN @ \union {row.id} |->
                                      IF id = row.id
                                      THEN <<f, Len(h.floors[f].rooms)>>
                                      ELSE @[id] ]]

RECURSIVE CreateRooms(_, _)
CreateRooms(acc, room_tuples) ==
    IF room_tuples = <<>> THEN acc
    ELSE CreateRooms(AddRoom(acc, Head(room_tuples)), Tail(room_tuples))

\* Sensor(...), ActuatorWithSensor(...) or Actuator(...) by category and kind
DeviceVariant(row) ==
    IF row.category = "sensor" THEN "Sensor"
    ELSE IF row.category = "actuator"
         THEN IF row.kind = "Heat Pump" THEN "ActuatorWithSensor" ELSE "Actuator"
         ELSE "Unregistered"

NewDevice(row) ==
    [id |-> row.id, kind |-> row.kind, variant |-> DeviceVariant(row),
     state |-> IF DeviceVariant(row) = "Sensor" THEN NoState ELSE Off]

\* Mutant: room_dict.get(...) and a device without a room is skipped
AddDeviceSkipDangling(acc, row) ==
    IF row.room \notin DOMAIN acc.room_dict THEN acc
    ELSE [acc EXCEPT !.house =
            register_device(@, acc.room_dict[row.room], NewDevice(row))]

\* Mutant: every device is registered in the room loaded first
AddDeviceFirstRoom(acc, row) ==
    IF acc.raised # "" THEN acc
    ELSE IF row.room \notin DOMAIN acc.room_dict
    THEN [acc EXCEPT !.raised = "KeyError"]
    ELSE [acc EXCEPT !.house =
            register_device(@, acc.room_dict[MinOf(DOMAIN acc.room_dict)],
                            NewDevice(row))]

\* One pass of the device loop: room = room_dict[device_tuple[1]] raises
\* KeyError for a room id that is no key
AddDevice(acc, row) ==
    IF acc.raised # "" THEN acc
    ELSE IF row.room \notin DOMAIN acc.room_dict
    THEN [acc EXCEPT !.raised = "KeyError"]
    ELSE IF DeviceVariant(row) = "Unregistered" THEN acc
    ELSE [acc EXCEPT !.house =
            register_device(@, acc.room_dict[row.room], NewDevice(row))]

RECURSIVE CreateDevices(_, _)
CreateDevices(acc, device_tuples) ==
    IF device_tuples = <<>> THEN acc
    ELSE CreateDevices(AddDevice(acc, Head(device_tuples)), Tail(device_tuples))

\* The state loop for one device: fetchone() of SELECT state FROM states
\* where device = id, decoded; without a row the state stays as constructed
LoadState(st, dev) ==
    IF dev.variant = "Sensor" THEN dev
    ELSE IF { x \in st : x.device = dev.id } = {} THEN dev
    ELSE [dev EXCEPT !.state =
            Decode((CHOOSE x \in st : x.device = dev.id).state)]

LoadStates(h, st) ==
    [floors |->
        [f \in DOMAIN h.floors |->
            [h.floors[f] EXCEPT !.rooms =
                [r \in DOMAIN @ |->
                    [@[r] EXCEPT !.devices =
                        [d \in DOMAIN @ |-> LoadState(st, @[d])]]]]]]

\* load_smarthouse_deep(): the house, or the exception that ends the call.
\* SELECT MAX(floor) of no rows is None, and range(0, None) raises TypeError
LoadSmarthouseDeep(rs, ds, st) ==
    IF rs = {} THEN [op |-> "load", raised |-> "TypeError"]
    ELSE LET no_floors == MaxOf({ r.floor : r \in rs })
             floors == CreateFloors(SmartHouse, 0, no_floors)
             withRooms == CreateRooms([raised |-> "", house |-> floors,
                                       room_dict |-> <<>>], Fetchall(rs))
             withDevs == CreateDevices(withRooms, Fetchall(ds))
         IN  IF withDevs.raised # ""
             THEN [op |-> "load", raised |-> withDevs.raised]
             ELSE [op |-> "load", raised |-> "",
                   house |-> LoadStates(withDevs.house, st)]

load_smarthouse_deep ==
    /\ last' = LoadSmarthouseDeep(rooms, devices, states)
    /\ UNCHANGED <<rooms, devices, states, measurements, committed, clock, pc>>

MaxFloor == 3       \* floor numbers stored: 1..MaxFloor
MaxRoomRows == 2    \* room rows stored, ids 1..MaxRoomRows

LoadRoomNames == <<"Bathroom", "Bedroom", "Attic", "Hall", "Office">>

LoadDeviceIds == {"d1", "d2"}

\* kind and category of the device rows stored
LoadDeviceTypes ==
    { [kind |-> "Humidity Sensor", category |-> "sensor"],
      [kind |-> "Heat Pump", category |-> "actuator"],
      [kind |-> "Light Bulp", category |-> "actuator"] }

LoadStateTables ==
    { {},
      { [device |-> "d1", state |-> Num(1)] },
      { [device |-> "d1", state |-> NULL], [device |-> "d2", state |-> Num(2)] } }

InitLoad ==
    /\ \E fl \in [1..MaxRoomRows -> 0..MaxFloor] :
          rooms = { [id |-> i, floor |-> fl[i], area |-> 10 * i,
                     name |-> LoadRoomNames[i]] :
                    i \in { j \in 1..MaxRoomRows : fl[j] # 0 } }
    /\ \E present \in SUBSET LoadDeviceIds :
       \E rm \in [present -> 1..(MaxRoomRows + 1)],
          ty \in [present -> LoadDeviceTypes] :
          devices = { [id |-> d, room |-> rm[d], kind |-> ty[d].kind,
                       category |-> ty[d].category, state |-> NULL] :
                      d \in present }
    /\ states \in LoadStateTables
    /\ measurements = {}
    /\ committed = {}
    /\ clock = 0
    /\ pc = <<>>
    /\ last = NoCall

NextLoad == load_smarthouse_deep

SpecLoad == InitLoad /\ [][NextLoad]_vars

\* Devices of the fixed house that may have a row in table states
StatefulDevices == {"pump", "bulb", "hum1"}

\* What table states may hold for one device: no row (<<>>), or one row with
\* NULL or a number
StateRowChoices ==
    { <<>>, <<NULL>> } \union { <<Num(v)>> : v \in 0..MaxLevel }

InitLoadState ==
    /\ rooms = HouseRooms
    /\ devices = HouseDevices
    /\ \E st \in [StatefulDevices -> StateRowChoices] :
          states = { [device |-> d, state |-> st[d][1]] :
                     d \in { x \in StatefulDevices : st[x] # <<>> } }
    /\ measurements = {}
    /\ committed = {}
    /\ clock = 0
    /\ pc = <<>>
    /\ last = NoCall

NextLoadState == load_smarthouse_deep

SpecLoadState == InitLoadState /\ [][NextLoadState]_vars

----------------------------------------------------------------------------
(* Claims about the measurement store *)

\* C3: appending a measurement for device d and then immediately calling
\* latest(d) returns exactly the row just appended, whatever rows and
\* timestamps the device already has.
C3_AppendThenLatest ==
    [][ ( /\ last.op = "append"
          /\ last'.op = "latest"
          /\ last'.device = last.device )
        => ( last'.found /\ last'.res.rowid = last.rowid ) ]_vars

\* C4: delete_oldest(d) removes exactly one row, a row of d with the minimum
\* timestamp among d's rows (also when several rows share it), removes
\* nothing when d has no rows, and leaves every other row as it was.
C4_DeleteOldestExactlyOne ==
    last.op = "delete_oldest" =>
        LET before == last.before
            mine == { r \in before : r.device = last.device }
        IN  /\ committed = measurements
            /\ IF mine = {}
               THEN measurements = before
               ELSE \E r \in mine :
                       /\ \A o \in mine : ~ TextLess(o.ts, r.ts)
                       /\ measurements = before \ {r}
                       /\ Cardinality(measurements) = Cardinality(before) - 1

\* C4 witness: a delete_oldest on a device two of whose rows shared the
\* minimum timestamp, with a row of another device present, removed one row.
C4_Witness ==
    /\ last.op = "delete_oldest"
    /\ \E r1, r2 \in last.before :
          /\ r1 # r2
          /\ r1.device = last.device /\ r2.device = last.device
          /\ r1.ts = r2.ts
          /\ \A o \in RowsOf(last.before, last.device) : TextLeq(r1.ts, o.ts)
    /\ \E o \in last.before : o.device # last.device
    /\ Cardinality(measurements) = Cardinality(last.before) - 1

\* C10: under any interleaving of callers on the shared connection, a read
\* returns only what the committed table yields: it never observes a write
\* whose commit has not happened yet.
C10_ReadsSeeCommittedOnly ==
    [][ ( last' # last /\ last'.op = "latest" )
        => last' \in LatestReading(committed, last'.device) ]_vars

----------------------------------------------------------------------------
(* Claims about the aggregation queries *)

\* The humidity-sensor readings (unit '%') of a room, date and hour
HumidityBucket(name, date, h) ==
    { m \in measurements :
        \E dev \in devices, r \in rooms :
            /\ dev.id = m.device /\ dev.room = r.id /\ r.name = name
            /\ dev.kind = "Humidity Sensor"
            /\ m.unit = "%"
            /\ <<m.ts[1]>> = date
            /\ m.ts[2] = h }

AlertHour(name, date, h) ==
    LET b == HumidityBucket(name, date, h)
    IN  Cardinality({ m \in b : m.value * Cardinality(b) > SumValues(b) }) > 3

\* C1: for every stored room, date and hour h in 0..23, the result of
\* humidity_alert_hours contains h exactly when more than 3 humidity readings
\* of that room, date and hour exceed the mean of that hour's readings; the
\* result is ascending without duplicates.
C1_AlertHoursExact ==
    (last.op = "hours" /\ last.raised = "") =>
        /\ \A h \in 0..23 :
              (h \in Range(last.res)) <=> AlertHour(last.room, last.date, h)
        /\ \A i, j \in 1..Len(last.res) : i < j => last.res[i] < last.res[j]

\* C7: humidity_alert_hours with a room name no stored room has raises the
\* unknown-room error (ValueError in the source), returns no list, and leaves
\* every table as it was.
C7_UnknownRoomRaises ==
    [][ ( /\ last' # last
          /\ last'.op = "hours"
          /\ \A r \in rooms : r.name # last'.room )
        => ( /\ last'.raised = "ValueError"
             /\ "res" \notin DOMAIN last'
             /\ UNCHANGED <<rooms, devices, states, measurements, committed>> )
      ]_vars

\* C7 witness: the query was called for "Attic", which no room is named,
\* while the store holds an hour of the Bathroom that qualifies.
C7_Witness ==
    /\ last.op = "hours"
    /\ last.room = "Attic"
    /\ \A r \in rooms : r.name # "Attic"
    /\ last.raised = "ValueError"
    /\ AlertHour("Bathroom", last.date, 7)

\* Whether the calendar day of ts lies in the inclusive range of days
DayInRange(ts, from_date, until_date) ==
    /\ (from_date # <<>> => from_date[1] <= ts[1])
    /\ (until_date # <<>> => ts[1] <= until_date[1])

TemperatureOfDay(name, from_date, until_date, day) ==
    { m \in measurements :
        \E dev \in devices, r \in rooms :
            /\ dev.id = m.device /\ dev.room = r.id /\ r.name = name
            /\ m.unit = "C"
            /\ m.ts[1] = day
            /\ DayInRange(m.ts, from_date, until_date) }

\* C5: avg_daily_temp has one entry for each date with a temperature reading
\* of the room inside the inclusive range [from_date, until_date], readings
\* of the until_date day at any time of day included; the entry is the mean
\* of those readings, and there is no other entry.
C5_DailyAverageInclusive ==
    last.op = "avg" =>
        \A day \in 0..(MaxDay + 1) :
            LET rows == TemperatureOfDay(last.room, last.from, last.until, day)
            IN  /\ (<<day>> \in DOMAIN last.res) <=> (rows # {})
                /\ rows # {} =>
                      last.res[<<day>>].sum * Cardinality(rows)
                          = SumValues(rows) * last.res[<<day>>].n

----------------------------------------------------------------------------
(* Claims about the state codec and the structure loader *)

\* C2: for every actuator state s (Off, On, OnWithLevel(v) with v # 1), the
\* value the actuator-state write persists for s decodes, by the rule of
\* load_structure, to s again.
C2_CodecRoundTrip ==
    last.op = "update_state" =>
        \A dev \in devices :
            dev.id = last.device => Decode(dev.state) = last.state

DanglingDevice ==
    \E d \in devices : \A r \in rooms : r.id # d.room

\* C6: load_structure returns a graph only when there is a room and every
\* device row references a stored room; without rooms it fails with the empty
\* structure error (TypeError in the source), with rooms and a device row of
\* an absent room id it fails with the dangling reference error (KeyError),
\* and a failed load returns no graph at all.
C6_LoadFailsOnBadStructure ==
    last.op = "load" =>
        /\ last.raised = "" => (rooms # {} /\ ~ DanglingDevice)
        /\ rooms = {} => last.raised = "TypeError"
        /\ (rooms # {} /\ DanglingDevice) => last.raised = "KeyError"
        /\ last.raised # "" => "house" \notin DOMAIN last

\* C6 witness: a load over stored rooms, one device of a stored room and one
\* device of an absent room, which failed.
C6_Witness ==
    /\ last.op = "load"
    /\ rooms # {}
    /\ \E d1, d2 \in devices :
          /\ \E r \in rooms : r.id = d1.room
          /\ \A r \in rooms : r.id # d2.room
    /\ last.raised = "KeyError"

RoomSlots(h) ==
    { <<f, k>> \in (DOMAIN h.floors) \X (1..MaxRoomRows) :
        k \in DOMAIN h.floors[f].rooms }

RoomAt(h, s) == h.floors[s[1]].rooms[s[2]]

DeviceSlots(h) ==
    { <<s, j>> \in RoomSlots(h) \X (1..Cardinality(devices)) :
        j \in DOMAIN RoomAt(h, s).devices }

DeviceAt(h, t) == RoomAt(h, t[1]).devices[t[2]]

\* C8: with stored floor numbers in 1..N and maximum N, the loaded house has
\* exactly the floors of levels 1, 2, ..., N in this order, the levels
\* without rooms included, and every room row is under the floor whose level
\* is its stored floor number.
C8_FloorsOneToN ==
    (last.op = "load" /\ last.raised = "") =>
        LET N == MaxOf({ r.floor : r \in rooms })
            fs == last.house.floors
        IN  /\ Len(fs) = N
            /\ \A i \in 1..Len(fs) : fs[i].level = i
            /\ \A r \in rooms : \A s \in RoomSlots(last.house) :
                  RoomAt(last.house, s).db_id = r.id => fs[s[1]].level = r.floor
            /\ \A r \in rooms : \E s \in RoomSlots(last.house) :
                  RoomAt(last.house, s).db_id = r.id

\* C8 witness: a house was loaded whose rooms are on floors 1 and 3 only.
C8_Witness ==
    /\ last.op = "load" /\ last.raised = ""
    /\ { r.floor : r \in rooms } = {1, 3}
    /\ Len(last.house.floors) = 3
    /\ last.house.floors[2].rooms = <<>>

\* C9: in the loaded house each stored room row is at exactly one place, each
\* stored device row (category sensor or actuator) at exactly one place, that
\* place being in the room its row references, and the house holds no room or
\* device that is no stored row.
C9_EachRowExactlyOnce ==
    (last.op = "load" /\ last.raised = "") =>
        LET h == last.house
        IN  /\ \A r \in rooms :
                  Cardinality({ s \in RoomSlots(h) : RoomAt(h, s).db_id = r.id }) = 1
            /\ \A s \in RoomSlots(h) : \E r \in rooms : r.id = RoomAt(h, s).db_id
            /\ \A d \in devices :
                  /\ Cardinality({ t \in DeviceSlots(h) : DeviceAt(h, t).id = d.id }) = 1
                  /\ \A t \in DeviceSlots(h) :
                        DeviceAt(h, t).id = d.id => RoomAt(h, t[1]).db_id = d.room
            /\ \A t \in DeviceSlots(h) : \E d \in devices : d.id = DeviceAt(h, t).id

\* C9 witness: a house was loaded from two rooms and two devices, the devices
\* in different rooms.
C9_Witness ==
    /\ last.op = "load" /\ last.raised = ""
    /\ Cardinality(rooms) = 2
    /\ \E d1, d2 \in devices : d1.room # d2.room
    /\ Cardinality(DeviceSlots(last.house)) = 2

\* The state the stored row of device id stands for; Off without a row
PersistedState(id) ==
    IF \A x \in states : x.device # id THEN Off
    ELSE LET x == CHOOSE y \in states : y.device = id
         IN  IF x.state.isnull THEN Off
             ELSE IF x.state.num = 1 THEN On
             ELSE [tag |-> "OnWithLevel", level |-> x.state.num]

\* C11: after load_structure every device built from an actuator row is an
\* ActuatorWithSensor exactly when its kind is 'Heat Pump' and an Actuator
\* otherwise, and has the state of its persisted state row: null is Off,
\* exactly 1 is On, any other number v (0 included) is OnWithLevel(v), and no
\* row is Off; a device built from a sensor row is a Sensor without state.
C11_StateDecodedOnLoad ==
    (last.op = "load" /\ last.raised = "") =>
        \A t \in DeviceSlots(last.house) : \A d \in devices :
            LET dev == DeviceAt(last.house, t)
            IN  dev.id = d.id =>
                  IF d.category = "actuator"
                  THEN /\ dev.variant = IF d.kind = "Heat Pump"
                                        THEN "ActuatorWithSensor" ELSE "Actuator"
                       /\ dev.state = PersistedState(d.id)
                  ELSE /\ dev.variant = "Sensor"
                       /\ dev.state.tag = "NoState"

\* C11 witness: a house was loaded in which the heat pump, stored with state
\* 0, is on with level 0, the bulb, stored with a number above 1, is on with
\* that level, and a sensor with a state row has no state.
C11_Witness ==
    /\ last.op = "load" /\ last.raised = ""
    /\ [device |-> "pump", state |-> Num(0)] \in states
    /\ \E x \in states : x.device = "bulb" /\ ~ x.state.isnull /\ x.state.num > 1
    /\ \E x \in states : x.device = "hum1"
    /\ \E t1, t2, t3 \in DeviceSlots(last.house) :
          /\ DeviceAt(last.house, t1).id = "pump"
          /\ DeviceAt(last.house, t1).variant = "ActuatorWithSensor"
          /\ DeviceAt(last.house, t1).state = [tag |-> "OnWithLevel", level |-> 0]
          /\ DeviceAt(last.house, t2).id = "bulb"
          /\ DeviceAt(last.house, t2).state.tag = "OnWithLevel"
          /\ DeviceAt(last.house, t3).id = "hum1"
          /\ DeviceAt(last.house, t3).state.tag = "NoState"

====
